---- MODULE Spec2Model ----
(***************************************************************************)
(* Model of the coeus-oracle application of the Nautilus server            *)
(* (src/nautilus-server/src/apps/coeus-oracle/mod.rs): the typed-result    *)
(* coercion (convert_rhai_result), the synchronous entry point             *)
(* execute_rhai_code, and the isolated execution execute_rhai_code_async   *)
(* with the direct-execution endpoint execute_code on top of it.           *)
(*                                                                         *)
(* Text is a sequence of one-character strings, so that trimming, prefix   *)
(* tests, parsing and byte encoding are computed and not assumed.          *)
(* Machine integers keep their signedness and their overflow behaviour but *)
(* are IntBits wide instead of 64: i64 is I64_MIN..I64_MAX, u64 is         *)
(* 0..U64_MAX, and an f64 carries F64_MANT significant bits.  A finite     *)
(* float is held as a whole number q of quarters (value q/4).              *)
(***************************************************************************)
EXTENDS Integers, Sequences, FiniteSets, TLC

\* ------------------------------------------------------------------ bounds
IntBits == 10
MaxArrLen == 2

RECURSIVE Pow2(_)
Pow2(n) == IF n = 0 THEN 1 ELSE 2 * Pow2(n - 1)

I64_MAX == Pow2(IntBits - 1) - 1
I64_MIN == 0 - Pow2(IntBits - 1)
U64_MAX == Pow2(IntBits) - 1
F64_MANT == IntBits - 2
U8_MAX == 255

\* a Rust `let` binding: the value is computed once, and the body uses it
With(value, Body(_)) == CHOOSE r \in {Body(x) : x \in {value}} : TRUE

\* ------------------------------------------------------------- characters
Digits == <<"0", "1", "2", "3", "4", "5", "6", "7", "8", "9">>

Printable ==
  <<" ", "!", "\"", "#", "$", "%", "&", "'", "(", ")", "*", "+", ",", "-", ".", "/",
    "0", "1", "2", "3", "4", "5", "6", "7", "8", "9", ":", ";", "<", "=", ">", "?",
    "@", "A", "B", "C", "D", "E", "F", "G", "H", "I", "J", "K", "L", "M", "N", "O",
    "P", "Q", "R", "S", "T", "U", "V", "W", "X", "Y", "Z", "[", "\\", "]", "^", "_",
    "<grave>", "a", "b", "c", "d", "e", "f", "g", "h", "i", "j", "k", "l", "m", "n", "o",
    "p", "q", "r", "s", "t", "u", "v", "w", "x", "y", "z", "{", "|", "}", "~">>

IndexOf(seq, c) == CHOOSE i \in 1..Len(seq) : seq[i] = c
Occurs(seq, c) == \E i \in 1..Len(seq) : seq[i] = c

IsDigit(c) == Occurs(Digits, c)
DigitVal(c) == IndexOf(Digits, c) - 1

\* char::is_whitespace, on the characters of the model
IsWhite(c) == c \in {" ", "\n", "\t"}

\* str::as_bytes: the UTF-8 encoding of one character
CharBytes(c) ==
  IF Occurs(Printable, c) THEN << IndexOf(Printable, c) + 31 >>
  ELSE IF c = "\n" THEN << 10 >>
  ELSE IF c = "\t" THEN << 9 >>
  ELSE IF c = "é" THEN << 195, 169 >>
  ELSE << 63 >>

\* (the text is taken by halves, which keeps the evaluation shallow)
RECURSIVE as_bytes(_)
as_bytes(s) ==
  IF s = << >> THEN << >>
  ELSE IF Len(s) = 1 THEN CharBytes(Head(s))
  ELSE as_bytes(SubSeq(s, 1, Len(s) \div 2)) \o as_bytes(SubSeq(s, Len(s) \div 2 + 1, Len(s)))

\* str::to_lowercase
LowerChar(c) ==
  IF Occurs(Printable, c) /\ IndexOf(Printable, c) \in 34..59
  THEN Printable[IndexOf(Printable, c) + 32] ELSE c

to_lowercase(s) == [i \in 1..Len(s) |-> LowerChar(s[i])]

\* str::trim
RECURSIVE trim_start(_)
trim_start(s) == IF s # << >> /\ IsWhite(Head(s)) THEN trim_start(Tail(s)) ELSE s

RECURSIVE trim_end(_)
trim_end(s) ==
  IF s # << >> /\ IsWhite(s[Len(s)]) THEN trim_end(SubSeq(s, 1, Len(s) - 1)) ELSE s

trim(s) == trim_end(trim_start(s))

\* str::starts_with
starts_with(s, p) == Len(s) >= Len(p) /\ SubSeq(s, 1, Len(p)) = p

\* decimal text of a natural number, and of a signed integer (i64 Display)
RECURSIVE NatText(_)
NatText(n) == IF n < 10 THEN << Digits[n + 1] >> ELSE NatText(n \div 10) \o << Digits[(n % 10) + 1] >>

IntText(i) == IF i < 0 THEN << "-" >> \o NatText(0 - i) ELSE NatText(i)

\* --------------------------------------------------------- dynamic values
\* rhai::Dynamic, by its type_name: k is "()", "bool", "i64", "f64", "string",
\* "array" or "map".  A float is fc = "fin" with q quarters, or "nan", "inf",
\* "ninf".  An array holds scalar values; a map holds (key, value) entries in
\* key order.  k = "variant" is the custom type Result<String, String> that
\* http_get_string returns: b tells Ok from Err and s is the payload.
Dyn(k, b, n, fc, s, a, m) == [k |-> k, b |-> b, n |-> n, fc |-> fc, s |-> s, a |-> a, m |-> m]

UNIT == Dyn("()", FALSE, 0, "fin", << >>, << >>, << >>)
DBool(b) == Dyn("bool", b, 0, "fin", << >>, << >>, << >>)
DInt(i) == Dyn("i64", FALSE, i, "fin", << >>, << >>, << >>)
DFloat(fc, q) == Dyn("f64", FALSE, q, fc, << >>, << >>, << >>)
DStr(s) == Dyn("string", FALSE, 0, "fin", s, << >>, << >>)
DArr(a) == Dyn("array", FALSE, 0, "fin", << >>, a, << >>)
DMap(m) == Dyn("map", FALSE, 0, "fin", << >>, << >>, m)
DResult(ok, s) == Dyn("variant", ok, 0, "fin", s, << >>, << >>)

\* std::any::type_name of Result<String, String>, which is what Display and
\* type_name of a Dynamic holding a custom type give
StringTypeName ==
  << "a", "l", "l", "o", "c", ":", ":", "s", "t", "r", "i", "n", "g", ":", ":",
     "S", "t", "r", "i", "n", "g" >>

ResultTypeName ==
  << "c", "o", "r", "e", ":", ":", "r", "e", "s", "u", "l", "t", ":", ":",
     "R", "e", "s", "u", "l", "t", "<" >>
  \o StringTypeName \o << ",", " " >> \o StringTypeName \o << ">" >>

Abs(i) == IF i < 0 THEN 0 - i ELSE i

FracText(r) == IF r = 0 THEN << "0" >> ELSE IF r = 1 THEN << "2", "5" >>
               ELSE IF r = 2 THEN << "5" >> ELSE << "7", "5" >>

\* core::fmt::Display for f64: a whole value prints without a fraction
f64_display(fc, q) ==
  IF fc = "nan" THEN << "N", "a", "N" >>
  ELSE IF fc = "inf" THEN << "i", "n", "f" >>
  ELSE IF fc = "ninf" THEN << "-", "i", "n", "f" >>
  ELSE (IF q < 0 THEN << "-" >> ELSE << >>) \o NatText(Abs(q) \div 4)
       \o (IF Abs(q) % 4 = 0 THEN << >> ELSE << "." >> \o FracText(Abs(q) % 4))

\* rhai FloatWrapper Display (magnitudes of the model lie in its natural
\* range): zero is "0.0", a whole value gets ".0" appended
FloatText(fc, q) ==
  IF fc = "fin" /\ q = 0 THEN << "0", ".", "0" >>
  ELSE f64_display(fc, q) \o (IF fc = "fin" /\ q % 4 = 0 THEN << ".", "0" >> ELSE << >>)

\* core::fmt::Debug for str
EscapeChar(c) ==
  IF c = "\"" THEN << "\\", "\"" >>
  ELSE IF c = "\\" THEN << "\\", "\\" >>
  ELSE IF c = "\n" THEN << "\\", "n" >>
  ELSE IF c = "\t" THEN << "\\", "t" >>
  ELSE << c >>

RECURSIVE Escape(_)
Escape(s) ==
  IF s = << >> THEN << >>
  ELSE IF Len(s) = 1 THEN EscapeChar(Head(s))
  ELSE Escape(SubSeq(s, 1, Len(s) \div 2)) \o Escape(SubSeq(s, Len(s) \div 2 + 1, Len(s)))

Quoted(s) == << "\"" >> \o Escape(s) \o << "\"" >>

\* Debug of a scalar Dynamic (an element of an array or a map)
ScalarDebug(d) ==
  IF d.k = "()" THEN << "(", ")" >>
  ELSE IF d.k = "bool" THEN (IF d.b THEN << "t", "r", "u", "e" >> ELSE << "f", "a", "l", "s", "e" >>)
  ELSE IF d.k = "i64" THEN IntText(d.n)
  ELSE IF d.k = "f64" THEN FloatText(d.fc, d.n)
  ELSE Quoted(d.s)

RECURSIVE ArrayItems(_)
ArrayItems(a) ==
  IF a = << >> THEN << >>
  ELSE ScalarDebug(Head(a)) \o (IF Len(a) > 1 THEN << ",", " " >> ELSE << >>) \o ArrayItems(Tail(a))

RECURSIVE MapItems(_)
MapItems(m) ==
  IF m = << >> THEN << >>
  ELSE Quoted(Head(m).key) \o << ":", " " >> \o ScalarDebug(Head(m).val)
       \o (IF Len(m) > 1 THEN << ",", " " >> ELSE << >>) \o MapItems(Tail(m))

\* Dynamic::to_string (Display)
to_string(d) ==
  IF d.k = "()" THEN << >>
  ELSE IF d.k = "string" THEN d.s
  ELSE IF d.k = "array" THEN << "[" >> \o ArrayItems(d.a) \o << "]" >>
  ELSE IF d.k = "map" THEN << "#", "{" >> \o MapItems(d.m) \o << "}" >>
  ELSE IF d.k = "variant" THEN ResultTypeName
  ELSE ScalarDebug(d)

\* --------------------------------------------------------- numeric casts
\* `num as u64` for an i64: two's complement reinterpretation
I64AsU64(num) == num % Pow2(IntBits)

\* variant: the cast rounds to the nearest integer
F64AsU64_round(fc, q) ==
  IF fc = "nan" THEN 0
  ELSE IF fc = "inf" THEN U64_MAX
  ELSE IF fc = "ninf" \/ q < 0 THEN 0
  ELSE IF (q + 2) \div 4 > U64_MAX THEN U64_MAX ELSE (q + 2) \div 4

\* `num as u64` for an f64: truncates toward zero and saturates; NaN is 0
F64AsU64(fc, q) ==
  IF fc = "nan" THEN 0
  ELSE IF fc = "inf" THEN U64_MAX
  ELSE IF fc = "ninf" \/ q < 0 THEN 0
  ELSE IF q \div 4 > U64_MAX THEN U64_MAX ELSE q \div 4

\* `num >= 0.0` for an f64 (false for NaN)
F64GeZero(fc, q) == fc = "inf" \/ (fc = "fin" /\ q >= 0)

\* str::parse::<u64>: an optional '+', then digits, with checked arithmetic
RECURSIVE ParseDigits(_, _)
ParseDigits(s, acc) ==
  IF s = << >> THEN [ok |-> TRUE, n |-> acc, kind |-> ""]
  ELSE IF ~IsDigit(Head(s)) THEN [ok |-> FALSE, n |-> 0, kind |-> "InvalidDigit"]
  ELSE IF acc * 10 + DigitVal(Head(s)) > U64_MAX THEN [ok |-> FALSE, n |-> 0, kind |-> "PosOverflow"]
  ELSE ParseDigits(Tail(s), acc * 10 + DigitVal(Head(s)))

parse_u64(s) ==
  IF s = << >> THEN [ok |-> FALSE, n |-> 0, kind |-> "Empty"]
  ELSE IF s = << "+" >> \/ s = << "-" >> THEN [ok |-> FALSE, n |-> 0, kind |-> "InvalidDigit"]
  ELSE IF Head(s) = "+" THEN ParseDigits(Tail(s), 0)
  ELSE ParseDigits(s, 0)

\* ------------------------------------------------------------ result types
\* enum ReturnType
ReturnType == {"STRING", "BOOLEAN", "NUMBER", "VECTOR"}

\* enum ResultValue; t = "None" stands for Option::None
RV(t, s, b, n, v) == [t |-> t, s |-> s, b |-> b, n |-> n, v |-> v]
RvSTRING(s) == RV("STRING", s, FALSE, 0, << >>)
RvBOOLEAN(b) == RV("BOOLEAN", << >>, b, 0, << >>)
RvNUMBER(n) == RV("NUMBER", << >>, FALSE, n, << >>)
RvVECTOR(v) == RV("VECTOR", << >>, FALSE, 0, v)
None == RV("None", << >>, FALSE, 0, << >>)

\* EnclaveError::GenericError(message): msg is the fixed part of the message,
\* arg the formatted value, cause the formatted inner error
NoErr == [msg |-> "", arg |-> << >>, cause |-> ""]
Ok(v) == [ok |-> TRUE, val |-> v, err |-> NoErr]
Err(msg, arg, cause) == [ok |-> FALSE, val |-> None, err |-> [msg |-> msg, arg |-> arg, cause |-> cause]]

NegativeNumber == "Negative number not supported"
ScriptReportedError == "Rhai code execution failed"
NotANumber == "Cannot convert to NUMBER"
NotABoolean == "Cannot convert to BOOLEAN"
ByteOutOfRange == "out of u8 range"
UnsupportedElementType == "Unsupported array element type"
ScriptError == "Rhai execution error"
IsolationBroken == "Thread communication error"
ResultJsonError == "Failed to parse result JSON"
NoResult == "Rhai code execution returned no result"

ErrorMarker == << "E", "r", "r", "o", "r", ":" >>

\* ---------------------------------------------------- convert_rhai_result
\* variant: the text is returned untrimmed
convert_STRING_untrimmed(dynamic) == Ok(RvSTRING(to_string(dynamic)))

\* ReturnType::STRING
convert_STRING(dynamic) == Ok(RvSTRING(trim(to_string(dynamic))))

\* variant: the error marker is not looked for
convert_NUMBER_no_marker(dynamic) ==
  IF dynamic.k = "i64" THEN
    IF dynamic.n >= 0 THEN Ok(RvNUMBER(I64AsU64(dynamic.n)))
    ELSE Err(NegativeNumber, IntText(dynamic.n), "")
  ELSE IF dynamic.k = "f64" THEN
    IF F64GeZero(dynamic.fc, dynamic.n) THEN Ok(RvNUMBER(F64AsU64(dynamic.fc, dynamic.n)))
    ELSE Err(NegativeNumber, f64_display(dynamic.fc, dynamic.n), "")
  ELSE
    LET s == trim(to_string(dynamic))
        p == parse_u64(s)
    IN IF p.ok THEN Ok(RvNUMBER(p.n)) ELSE Err(NotANumber, s, p.kind)

\* ReturnType::NUMBER
convert_NUMBER(dynamic) ==
  IF dynamic.k = "i64" THEN
    IF dynamic.n >= 0 THEN Ok(RvNUMBER(I64AsU64(dynamic.n)))
    ELSE Err(NegativeNumber, IntText(dynamic.n), "")
  ELSE IF dynamic.k = "f64" THEN
    IF F64GeZero(dynamic.fc, dynamic.n) THEN Ok(RvNUMBER(F64AsU64(dynamic.fc, dynamic.n)))
    ELSE Err(NegativeNumber, f64_display(dynamic.fc, dynamic.n), "")
  ELSE
    LET s == trim(to_string(dynamic)) IN
      IF starts_with(s, ErrorMarker) THEN Err(ScriptReportedError, s, "")
      ELSE LET p == parse_u64(s) IN
             IF p.ok THEN Ok(RvNUMBER(p.n)) ELSE Err(NotANumber, s, p.kind)

\* variant: the text is compared without lower-casing
convert_BOOLEAN_case_sensitive(dynamic) ==
  IF dynamic.k = "bool" THEN Ok(RvBOOLEAN(dynamic.b))
  ELSE
    LET s == trim(to_string(dynamic)) IN
      IF s = << "t", "r", "u", "e" >> \/ s = << "1" >> THEN Ok(RvBOOLEAN(TRUE))
      ELSE IF s = << "f", "a", "l", "s", "e" >> \/ s = << "0" >> THEN Ok(RvBOOLEAN(FALSE))
      ELSE Err(NotABoolean, << >>, "")

\* ReturnType::BOOLEAN
convert_BOOLEAN(dynamic) ==
  IF dynamic.k = "bool" THEN Ok(RvBOOLEAN(dynamic.b))
  ELSE
    LET s == to_lowercase(trim(to_string(dynamic))) IN
      IF s = << "t", "r", "u", "e" >> \/ s = << "1" >> THEN Ok(RvBOOLEAN(TRUE))
      ELSE IF s = << "f", "a", "l", "s", "e" >> \/ s = << "0" >> THEN Ok(RvBOOLEAN(FALSE))
      ELSE Err(NotABoolean, << >>, "")

\* variant: the upper limit of a byte is excluded
RECURSIVE vector_items_below_max(_, _)
vector_items_below_max(arr, u8_vec) ==
  IF arr = << >> THEN Ok(RvVECTOR(u8_vec))
  ELSE LET item == Head(arr) IN
    IF item.k = "i64" THEN
      IF item.n >= 0 /\ item.n < U8_MAX THEN vector_items_below_max(Tail(arr), Append(u8_vec, item.n % 256))
      ELSE Err(ByteOutOfRange, IntText(item.n), "")
    ELSE IF item.k = "string" THEN vector_items_below_max(Tail(arr), u8_vec \o as_bytes(item.s))
    ELSE Err(UnsupportedElementType, << >>, "")

\* variant: an integer element is cast to u8 without the range test
RECURSIVE vector_items_unchecked(_, _)
vector_items_unchecked(arr, u8_vec) ==
  IF arr = << >> THEN Ok(RvVECTOR(u8_vec))
  ELSE LET item == Head(arr) IN
    IF item.k = "i64" THEN vector_items_unchecked(Tail(arr), Append(u8_vec, item.n % 256))
    ELSE IF item.k = "string" THEN vector_items_unchecked(Tail(arr), u8_vec \o as_bytes(item.s))
    ELSE Err(UnsupportedElementType, << >>, "")

\* ReturnType::VECTOR, the loop over the elements of an array
RECURSIVE vector_items(_, _)
vector_items(arr, u8_vec) ==
  IF arr = << >> THEN Ok(RvVECTOR(u8_vec))
  ELSE LET item == Head(arr) IN
    IF item.k = "i64" THEN
      IF item.n >= 0 /\ item.n <= U8_MAX THEN vector_items(Tail(arr), Append(u8_vec, item.n % 256))
      ELSE Err(ByteOutOfRange, IntText(item.n), "")
    ELSE IF item.k = "string" THEN vector_items(Tail(arr), u8_vec \o as_bytes(item.s))
    ELSE Err(UnsupportedElementType, << >>, "")

\* ReturnType::VECTOR
convert_VECTOR(dynamic) ==
  IF dynamic.k = "array" THEN vector_items(dynamic.a, << >>)
  ELSE Ok(RvVECTOR(as_bytes(to_string(dynamic))))

\* variant: a script that results in () has no value
convert_rhai_result_unit_none(dynamic, expected_type) ==
  IF dynamic.k = "()" THEN Ok(None)
  ELSE IF expected_type = "STRING" THEN convert_STRING(dynamic)
  ELSE IF expected_type = "NUMBER" THEN convert_NUMBER(dynamic)
  ELSE IF expected_type = "BOOLEAN" THEN convert_BOOLEAN(dynamic)
  ELSE convert_VECTOR(dynamic)

\* convert_rhai_result: the match on the declared return type
convert_rhai_result(dynamic, expected_type) ==
  IF expected_type = "STRING" THEN convert_STRING(dynamic)
  ELSE IF expected_type = "NUMBER" THEN convert_NUMBER(dynamic)
  ELSE IF expected_type = "BOOLEAN" THEN convert_BOOLEAN(dynamic)
  ELSE convert_VECTOR(dynamic)

\* ------------------------------------------------------ serde_json values
\* serde_json::Value: j is "Null", "Bool", "Number", "String", "Array" or
\* "Object"; a Number is nk = "PosInt" (u64), "NegInt" (i64) or "Float"
\* (finite f64, n quarters).  Arrays and objects hold scalar values.
JV(j, b, nk, n, s, a, o) == [j |-> j, b |-> b, nk |-> nk, n |-> n, s |-> s, a |-> a, o |-> o]

JNull == JV("Null", FALSE, "PosInt", 0, << >>, << >>, << >>)
JBool(b) == JV("Bool", b, "PosInt", 0, << >>, << >>, << >>)
JInt(i) == JV("Number", FALSE, IF i < 0 THEN "NegInt" ELSE "PosInt", i, << >>, << >>, << >>)
JFloat(q) == JV("Number", FALSE, "Float", q, << >>, << >>, << >>)
JString(s) == JV("String", FALSE, "PosInt", 0, s, << >>, << >>)
JArray(a) == JV("Array", FALSE, "PosInt", 0, << >>, a, << >>)
JObject(o) == JV("Object", FALSE, "PosInt", 0, << >>, << >>, o)

RECURSIVE BitLen(_)
BitLen(n) == IF n = 0 THEN 0 ELSE 1 + BitLen(n \div 2)

\* `n as f64` for an integer: round to nearest, ties to even, at F64_MANT bits
IntAsF64(n) ==
  LET a == Abs(n)
      unit == IF BitLen(a) > F64_MANT THEN Pow2(BitLen(a) - F64_MANT) ELSE 1
      r == a % unit
      base == a - r
      up == 2 * r > unit \/ (2 * r = unit /\ (base \div unit) % 2 = 1)
      v == IF up THEN base + unit ELSE base
  IN 4 * (IF n < 0 THEN 0 - v ELSE v)

\* json_value_to_dynamic, JsonValue::Number arm
number_to_dynamic(value) ==
  IF value.nk # "Float" /\ value.n <= I64_MAX THEN DInt(value.n)
  ELSE IF value.nk = "Float" THEN DFloat("fin", value.n)
  ELSE DFloat("fin", IntAsF64(value.n))

scalar_to_dynamic(value) ==
  IF value.j = "Null" THEN UNIT
  ELSE IF value.j = "Bool" THEN DBool(value.b)
  ELSE IF value.j = "Number" THEN number_to_dynamic(value)
  ELSE DStr(value.s)

json_value_to_dynamic(value) ==
  IF value.j = "Array" THEN DArr([i \in 1..Len(value.a) |-> scalar_to_dynamic(value.a[i])])
  ELSE IF value.j = "Object"
    THEN DMap([i \in 1..Len(value.o) |-> [key |-> value.o[i].key, val |-> scalar_to_dynamic(value.o[i].val)]])
  ELSE scalar_to_dynamic(value)

\* serde_json::to_string of a scalar Value
JsonEscapeChar(c) ==
  IF c = "\"" THEN << "\\", "\"" >>
  ELSE IF c = "\\" THEN << "\\", "\\" >>
  ELSE IF c = "\n" THEN << "\\", "n" >>
  ELSE IF c = "\t" THEN << "\\", "t" >>
  ELSE << c >>

RECURSIVE JsonEscape(_)
JsonEscape(s) ==
  IF s = << >> THEN << >>
  ELSE IF Len(s) = 1 THEN JsonEscapeChar(Head(s))
  ELSE JsonEscape(SubSeq(s, 1, Len(s) \div 2)) \o JsonEscape(SubSeq(s, Len(s) \div 2 + 1, Len(s)))

JsonFloatText(q) ==
  (IF q < 0 THEN << "-" >> ELSE << >>) \o NatText(Abs(q) \div 4) \o << "." >> \o FracText(Abs(q) % 4)

json_to_string(value) ==
  IF value.j = "Null" THEN << "n", "u", "l", "l" >>
  ELSE IF value.j = "Bool" THEN (IF value.b THEN << "t", "r", "u", "e" >> ELSE << "f", "a", "l", "s", "e" >>)
  ELSE IF value.j = "Number" THEN (IF value.nk = "Float" THEN JsonFloatText(value.n) ELSE IntText(value.n))
  ELSE << "\"" >> \o JsonEscape(value.s) \o << "\"" >>

\* the Result of serde_json::from_str
JErr == [ok |-> FALSE, v |-> JNull]
JOk(v) == [ok |-> TRUE, v |-> v]

RECURSIVE ParseJsonString(_, _)
ParseJsonString(t, acc) ==
  IF t = << >> THEN JErr
  ELSE IF ~Occurs(t, "\\") THEN
    \* no escape is left: the text runs to the closing quote
    (IF t[Len(t)] = "\"" /\ \A i \in 1..(Len(t) - 1) : t[i] \notin {"\"", "\n", "\t"}
       THEN JOk(JString(acc \o SubSeq(t, 1, Len(t) - 1)))
       ELSE JErr)
  ELSE IF Head(t) = "\"" THEN (IF Len(t) = 1 THEN JOk(JString(acc)) ELSE JErr)
  ELSE IF Head(t) = "\\" THEN
    IF Len(t) < 2 THEN JErr
    ELSE IF t[2] \in {"\"", "\\", "/"} THEN ParseJsonString(SubSeq(t, 3, Len(t)), Append(acc, t[2]))
    ELSE IF t[2] = "n" THEN ParseJsonString(SubSeq(t, 3, Len(t)), Append(acc, "\n"))
    ELSE IF t[2] = "t" THEN ParseJsonString(SubSeq(t, 3, Len(t)), Append(acc, "\t"))
    ELSE JErr
  ELSE IF Head(t) \in {"\n", "\t"} THEN JErr
  ELSE ParseJsonString(Tail(t), Append(acc, Head(t)))

AllDigits(t) == t # << >> /\ \A i \in 1..Len(t) : IsDigit(t[i])

RECURSIVE NatOf(_, _)
NatOf(t, acc) == IF t = << >> THEN acc ELSE NatOf(Tail(t), acc * 10 + DigitVal(Head(t)))

Pow10(n) == NatOf([i \in 1..n |-> "0"], 1)

\* the quarters nearest to the decimal number ip.fp (ties to even)
DecimalQuarters(ip, fp) ==
  LET num == NatOf(fp, 0) * 4
      den == Pow10(Len(fp))
      fl == num \div den
      r == num % den
      up == 2 * r > den \/ (2 * r = den /\ fl % 2 = 1)
  IN NatOf(ip, 0) * 4 + fl + (IF up THEN 1 ELSE 0)

ParseJsonNumber(t) ==
  LET neg == Head(t) = "-"
      body == IF neg THEN Tail(t) ELSE t
      dot == IF Occurs(body, ".") THEN IndexOf(body, ".") ELSE 0
      ip == IF dot = 0 THEN body ELSE SubSeq(body, 1, dot - 1)
      fp == IF dot = 0 THEN << >> ELSE SubSeq(body, dot + 1, Len(body))
  IN IF ~AllDigits(ip) \/ (Len(ip) > 1 /\ Head(ip) = "0") THEN JErr
     ELSE IF dot # 0 THEN
       (IF ~AllDigits(fp) THEN JErr
        ELSE JOk(JFloat(IF neg THEN 0 - DecimalQuarters(ip, fp) ELSE DecimalQuarters(ip, fp))))
     ELSE LET n == NatOf(ip, 0) IN
       IF ~neg THEN (IF n <= U64_MAX THEN JOk(JInt(n)) ELSE JOk(JFloat(IntAsF64(n))))
       ELSE IF n = 0 THEN JOk(JFloat(0))
       ELSE IF 0 - n >= I64_MIN THEN JOk(JInt(0 - n))
       ELSE JOk(JFloat(IntAsF64(0 - n)))

ScalarDoc(t) ==
  IF t = << "n", "u", "l", "l" >> THEN JOk(JNull)
  ELSE IF t = << "t", "r", "u", "e" >> THEN JOk(JBool(TRUE))
  ELSE IF t = << "f", "a", "l", "s", "e" >> THEN JOk(JBool(FALSE))
  ELSE IF t = << >> THEN JErr
  ELSE IF Head(t) = "\"" THEN ParseJsonString(Tail(t), << >>)
  ELSE IF Head(t) = "-" \/ IsDigit(Head(t)) THEN ParseJsonNumber(t)
  ELSE JErr

\* the pieces of t between the separators sep that stand outside a string.
\* Scan reads t[lo..hi] from the state st (inside a string, after a
\* backslash) and collects the places of those separators; the text is taken
\* by halves, which keeps the evaluation shallow.
RECURSIVE Scan(_, _, _, _, _)
Scan(t, sep, lo, hi, st) ==
  IF lo > hi THEN st
  ELSE IF lo = hi THEN
    (IF st.esc THEN [st EXCEPT !.esc = FALSE]
     ELSE IF st.inStr /\ t[lo] = "\\" THEN [st EXCEPT !.esc = TRUE]
     ELSE IF t[lo] = "\"" THEN [st EXCEPT !.inStr = ~@]
     ELSE IF t[lo] = sep /\ ~st.inStr THEN [st EXCEPT !.cuts = @ \cup {lo}]
     ELSE st)
  ELSE With(Scan(t, sep, lo, (lo + hi) \div 2, st), LAMBDA half :
         Scan(t, sep, (lo + hi) \div 2 + 1, hi, half))

\* the k-th place of a set of places, in order
CutAt(cuts, k) == CHOOSE c \in cuts : Cardinality({d \in cuts : d < c}) = k - 1

SplitTop(t, sep, cur, inStr, esc, acc) ==
  With(Scan(t, sep, 1, Len(t), [inStr |-> inStr, esc |-> esc, cuts |-> {}]).cuts, LAMBDA cuts :
    acc \o [k \in 1..(Cardinality(cuts) + 1) |->
              (IF k = 1 THEN cur ELSE << >>)
              \o SubSeq(t, IF k = 1 THEN 1 ELSE CutAt(cuts, k - 1) + 1,
                           IF k = Cardinality(cuts) + 1 THEN Len(t) ELSE CutAt(cuts, k) - 1)])

\* the elements of an array document
RECURSIVE ParseElements(_, _)
ParseElements(parts, a) ==
  IF parts = << >> THEN JOk(JArray(a))
  ELSE With(ScalarDoc(trim(Head(parts))), LAMBDA e :
    IF e.ok THEN ParseElements(Tail(parts), Append(a, e.v)) ELSE JErr)

\* Ord for String: byte by byte
RECURSIVE BytesLess(_, _)
BytesLess(x, y) ==
  IF y = << >> THEN FALSE
  ELSE IF x = << >> THEN TRUE
  ELSE IF Head(x) # Head(y) THEN Head(x) < Head(y)
  ELSE BytesLess(Tail(x), Tail(y))

\* serde_json::Map::insert (a BTreeMap: the keys are kept in order and a
\* repeated key keeps the last value)
RECURSIVE MapInsert(_, _)
MapInsert(o, e) ==
  IF o = << >> THEN << e >>
  ELSE IF Head(o).key = e.key THEN << e >> \o Tail(o)
  ELSE IF BytesLess(as_bytes(e.key), as_bytes(Head(o).key)) THEN << e >> \o o
  ELSE << Head(o) >> \o MapInsert(Tail(o), e)

\* the key of a member: a string
ParseKey(t) ==
  IF t # << >> /\ Head(t) = "\"" THEN ParseJsonString(Tail(t), << >>) ELSE JErr

\* the members of an object document
RECURSIVE ParseMembers(_, _)
ParseMembers(parts, o) ==
  IF parts = << >> THEN JOk(JObject(o))
  ELSE With(SplitTop(Head(parts), ":", << >>, FALSE, FALSE, << >>), LAMBDA kv :
    IF Len(kv) # 2 THEN JErr
    ELSE With(ParseKey(trim(kv[1])), LAMBDA k :
         With(ScalarDoc(trim(kv[2])), LAMBDA v :
           IF ~k.ok \/ ~v.ok THEN JErr
           ELSE ParseMembers(Tail(parts), MapInsert(o, [key |-> k.v.s, val |-> v.v])))))

\* serde_json::from_str::<JsonValue>: a scalar, or an array or an object of
\* scalars
from_str(text) ==
  With(trim(text), LAMBDA t :
  With(trim(SubSeq(t, 2, Len(t) - 1)), LAMBDA inner :
    IF t = << >> THEN JErr
    ELSE IF Head(t) = "[" THEN
      (IF t[Len(t)] # "]" THEN JErr
       ELSE IF inner = << >> THEN JOk(JArray(<< >>))
       ELSE ParseElements(SplitTop(inner, ",", << >>, FALSE, FALSE, << >>), << >>))
    ELSE IF Head(t) = "{" THEN
      (IF t[Len(t)] # "}" THEN JErr
       ELSE IF inner = << >> THEN JOk(JObject(<< >>))
       ELSE ParseMembers(SplitTop(inner, ",", << >>, FALSE, FALSE, << >>), << >>))
    ELSE ScalarDoc(t)))

\* ------------------------------------------------------------------ scripts
\* A script is held by what its evaluation does:
\*   "value"      it evaluates to the value d;
\*   "parse_json" it is parse_json(doc) for the document text doc;
\*   "syntax_error", "runtime_error"  evaluation returns an EvalAltResult;
\*   "panic"      a host function panics (the preview slice &trimmed[..200]
\*                of http_get_json and fetch_json off a character boundary);
\*   "http_get", "http_get_json", "fetch_json", "http_get_string"
\*                it is that function called on a URL for which the network
\*                answers net;
\*   "is_err", "is_ok", "unwrap", "unwrap_string", "err", "parse_json_of"
\*                it is that helper (parse_json for the last) called on the
\*                value d.
\* reqwest::blocking::get(url) and resp.text(): st is "request_error" (the
\* host is unreachable), "http_error" (a status that is not 2xx), "read_error"
\* (the body cannot be read) or "ok" with the body
NetResp(st, body) == [st |-> st, body |-> body]
NoNet == NetResp("none", << >>)

Script(form, d, doc) == [form |-> form, d |-> d, doc |-> doc, net |-> NoNet]
Fetch(form, net) == [form |-> form, d |-> UNIT, doc |-> << >>, net |-> net]

\* Result<String, String>
ROk(s) == [ok |-> TRUE, s |-> s]
RErr(s) == [ok |-> FALSE, s |-> s]

RequestError == << "R", "e", "q", "u", "e", "s", "t", " ", "e", "r", "r", "o", "r", ":",
     " ", "e" >>
HttpError == << "H", "T", "T", "P", " ", "e", "r", "r", "o", "r", ":", " ", "s", "t",
     "a", "t", "u", "s", " ", "4", "0", "4", " ", "N", "o", "t", " ", "F",
     "o", "u", "n", "d" >>
ReadError == << "R", "e", "a", "d", " ", "e", "r", "r", "o", "r", ":", " ", "e" >>

http_get_string(net) ==
  IF net.st = "request_error" THEN RErr(RequestError)
  ELSE IF net.st = "http_error" THEN RErr(HttpError)
  ELSE IF net.st = "read_error" THEN RErr(ReadError)
  ELSE ROk(net.body)

\* variant: the body of a successful response is wrapped as Ok(body)
http_get_wrapped(net) ==
  LET r == http_get_string(net) IN
    IF r.ok THEN << "O", "k", "(" >> \o r.s \o << ")" >> ELSE ErrorMarker \o << " " >> \o r.s

\* http_get
http_get(net) ==
  LET r == http_get_string(net) IN
    IF r.ok THEN r.s ELSE ErrorMarker \o << " " >> \o r.s

\* what a host function does: it returns a value or it panics
Returned(d) == [panics |-> FALSE, d |-> d]
Panicked == [panics |-> TRUE, d |-> UNIT]

\* the preview of a response: format!("{}...", &trimmed[..200]) once the
\* text is longer than 200 bytes; the slice panics off a character boundary.
\* The texts of the model are short, and the length 200 is scaled with them.
PreviewLen == 8

IsCharBoundary(s, n) == \E k \in 0..Len(s) : Len(as_bytes(SubSeq(s, 1, k))) = n

Preview(trimmed) ==
  IF Len(as_bytes(trimmed)) > PreviewLen THEN
    IF IsCharBoundary(trimmed, PreviewLen)
      THEN Returned(DStr(SubSeq(trimmed, 1,
                      CHOOSE k \in 0..Len(trimmed) : Len(as_bytes(SubSeq(trimmed, 1, k))) = PreviewLen)
                    \o << ".", ".", "." >>))
      ELSE Panicked
  ELSE Returned(DStr(trimmed))

EmptyResponse == << "E", "m", "p", "t", "y", " ", "r", "e", "s", "p", "o", "n", "s", "e",
     " ", "f", "r", "o", "m", " ", "u" >>
NonJsonResponseFrom == << "N", "o", "n", "-", "J", "S", "O", "N", " ", "r", "e", "s", "p", "o",
     "n", "s", "e", " ", "f", "r", "o", "m", " ", "u", ":", " " >>
InvalidJsonFrom == << "I", "n", "v", "a", "l", "i", "d", " ", "J", "S", "O", "N", " ", "f",
     "r", "o", "m", " ", "u", ":", " " >>
NonJsonResponse == << "N", "o", "n", "-", "J", "S", "O", "N", " ", "r", "e", "s", "p", "o",
     "n", "s", "e", ":", " " >>
InvalidJson == << "I", "n", "v", "a", "l", "i", "d", " ", "J", "S", "O", "N", ":", " " >>
SerdeError == << "expected value" >>

\* http_get_json
http_get_json(net) ==
  With(http_get_string(net), LAMBDA r :
  With(trim(r.s), LAMBDA trimmed :
  With(Preview(trimmed), LAMBDA preview :
    IF ~r.ok THEN Returned(DStr(ErrorMarker \o << " " >> \o r.s))
    ELSE IF preview.panics THEN Panicked
    ELSE IF trimmed = << >> THEN Returned(DStr(ErrorMarker \o << " " >> \o EmptyResponse))
    ELSE IF Head(trimmed) # "{" /\ Head(trimmed) # "["
      THEN Returned(DStr(ErrorMarker \o << " " >> \o NonJsonResponseFrom \o preview.d.s))
    ELSE IF from_str(trimmed).ok THEN Returned(DStr(r.s))
    ELSE Returned(DStr(ErrorMarker \o << " " >> \o InvalidJsonFrom \o SerdeError)))))

\* fetch_json
fetch_json(net) ==
  With(http_get_string(net), LAMBDA r :
  With(trim(r.s), LAMBDA trimmed :
    IF ~r.ok THEN Returned(DStr(ErrorMarker \o << " " >> \o r.s))
    ELSE IF trimmed = << >> THEN Returned(DStr(ErrorMarker \o << " " >> \o EmptyResponse))
    ELSE IF Head(trimmed) # "{" /\ Head(trimmed) # "["
      THEN With(Preview(trimmed), LAMBDA preview :
             IF preview.panics THEN Panicked
             ELSE Returned(DStr(ErrorMarker \o << " " >> \o NonJsonResponse \o preview.d.s)))
    ELSE With(from_str(trimmed), LAMBDA json :
           IF json.ok THEN Returned(json_value_to_dynamic(json.v))
           ELSE Returned(DStr(ErrorMarker \o << " " >> \o InvalidJson \o SerdeError)))))

\* parse_json(text)
parse_json(text) ==
  With(from_str(text), LAMBDA r :
    IF r.ok THEN json_value_to_dynamic(r.v)
    ELSE DStr(ErrorMarker \o << " " >> \o SerdeError))

\* str::trim_start_matches, trim_end_matches with a pattern, trim_matches
\* with a character: every repetition of the pattern is removed
RECURSIVE trim_start_matches(_, _)
trim_start_matches(s, p) ==
  IF p # << >> /\ starts_with(s, p) THEN trim_start_matches(SubSeq(s, Len(p) + 1, Len(s)), p) ELSE s

RECURSIVE trim_end_matches(_, _)
trim_end_matches(s, p) ==
  IF p # << >> /\ Len(s) >= Len(p) /\ SubSeq(s, Len(s) - Len(p) + 1, Len(s)) = p
    THEN trim_end_matches(SubSeq(s, 1, Len(s) - Len(p)), p) ELSE s

trim_matches(s, c) == trim_end_matches(trim_start_matches(s, << c >>), << c >>)

ErrPrefix == << "E", "r", "r", "(" >>
OkPrefix == << "O", "k", "(" >>

\* the helpers registered for the values of fallible operations
is_err(result) ==
  LET result_str == to_string(result) IN
    starts_with(result_str, ErrPrefix) \/ starts_with(result_str, ErrorMarker)

is_ok(result) ==
  LET result_str == to_string(result) IN
    ~starts_with(result_str, ErrPrefix) /\ ~starts_with(result_str, ErrorMarker)

unwrap(result) ==
  LET result_str == to_string(result) IN
    IF starts_with(result_str, ErrPrefix)
      THEN DStr(ErrorMarker \o << " " >>
                \o trim_end_matches(trim_start_matches(result_str, ErrPrefix), << ")" >>))
    ELSE IF starts_with(result_str, OkPrefix)
      THEN DStr(trim_end_matches(trim_start_matches(result_str, OkPrefix), << ")" >>))
    ELSE result

unwrap_string(result) ==
  LET result_str == to_string(result) IN
    IF starts_with(result_str, ErrPrefix)
      THEN ErrorMarker \o << " " >>
           \o trim_end_matches(trim_start_matches(result_str, ErrPrefix), << ")" >>)
    ELSE IF starts_with(result_str, ErrorMarker) THEN ErrorMarker \o << " " >> \o result_str
    ELSE IF starts_with(result_str, OkPrefix)
      THEN trim_matches(trim_end_matches(trim_start_matches(result_str, OkPrefix), << ")" >>), "\"")
    ELSE IF result.k = "string" THEN result.s
    ELSE result_str

err(result) ==
  LET result_str == to_string(result) IN
    IF starts_with(result_str, ErrPrefix)
      THEN DStr(trim_end_matches(trim_start_matches(result_str, ErrPrefix), << ")" >>))
    ELSE UNIT

\* parse_json_dynamic
parse_json_dynamic(text) ==
  With(to_string(text), LAMBDA text_str :
    IF starts_with(text_str, ErrPrefix)
      THEN DStr(ErrorMarker \o << " " >>
                \o trim_end_matches(trim_start_matches(text_str, ErrPrefix), << ")" >>))
    ELSE IF starts_with(text_str, ErrorMarker) THEN DStr(ErrorMarker \o << " " >> \o text_str)
    ELSE parse_json(
      IF starts_with(text_str, OkPrefix)
        THEN trim_matches(trim_end_matches(trim_start_matches(text_str, OkPrefix), << ")" >>), "\"")
      ELSE IF text.k = "string" THEN text.s
      ELSE text_str))

\* a call parse_json(x) in a script: both functions are registered under the
\* name; a string argument selects parse_json(&str), whose parameter type it
\* matches, and every other value falls back on the Dynamic parameter
call_parse_json(x) ==
  IF x.k = "string" THEN parse_json(x.s) ELSE parse_json_dynamic(x)

\* the call of a host function of the script
HostCall(code) ==
  IF code.form = "http_get" THEN Returned(DStr(http_get(code.net)))
  ELSE IF code.form = "http_get_json" THEN http_get_json(code.net)
  ELSE IF code.form = "fetch_json" THEN fetch_json(code.net)
  ELSE IF code.form = "http_get_string"
    THEN With(http_get_string(code.net), LAMBDA r : Returned(DResult(r.ok, r.s)))
  ELSE IF code.form = "is_err" THEN Returned(DBool(is_err(code.d)))
  ELSE IF code.form = "is_ok" THEN Returned(DBool(is_ok(code.d)))
  ELSE IF code.form = "unwrap" THEN Returned(unwrap(code.d))
  ELSE IF code.form = "unwrap_string" THEN Returned(DStr(unwrap_string(code.d)))
  ELSE IF code.form = "err" THEN Returned(err(code.d))
  ELSE Returned(call_parse_json(code.d))

FetchForms == {"http_get", "http_get_json", "fetch_json", "http_get_string"}
HelperForms == {"is_err", "is_ok", "unwrap", "unwrap_string", "err", "parse_json_of"}

\* engine.eval_with_scope(&mut scope, code)
Eval(code) ==
  IF code.form = "value" THEN [outcome |-> "ok", d |-> code.d, e |-> << >>]
  ELSE IF code.form = "parse_json" THEN [outcome |-> "ok", d |-> parse_json(code.doc), e |-> << >>]
  ELSE IF code.form = "panic" THEN [outcome |-> "panic", d |-> UNIT, e |-> << >>]
  ELSE IF code.form \in FetchForms \cup HelperForms THEN
    With(HostCall(code), LAMBDA r :
      IF r.panics THEN [outcome |-> "panic", d |-> UNIT, e |-> << >>]
      ELSE [outcome |-> "ok", d |-> r.d, e |-> << >>])
  ELSE [outcome |-> "err", d |-> UNIT, e |-> << code.form >>]

\* Scripts that use the scope: "let_counter" is `let counter = 7; counter`
\* and "read_counter" is `counter`, which is a runtime error unless the scope
\* holds the variable; "hang" is a script that never ends (`loop {}`).
\* A scope is held by the names it defines.
VariableNotFound == << "Variable not found: counter" >>

eval_with_scope(scope, code) ==
  IF code.form = "let_counter"
    THEN [outcome |-> "ok", d |-> DInt(7), e |-> << >>, scope |-> scope \cup {"counter"}]
  ELSE IF code.form = "read_counter" THEN
    (IF "counter" \in scope
       THEN [outcome |-> "ok", d |-> DInt(7), e |-> << >>, scope |-> scope]
       ELSE [outcome |-> "err", d |-> UNIT, e |-> VariableNotFound, scope |-> scope])
  ELSE With(Eval(code), LAMBDA r :
         [outcome |-> r.outcome, d |-> r.d, e |-> r.e, scope |-> scope])

\* the evaluation of the script ends
Terminates(code) == code.form # "hang"

\* the values scripts evaluate to
FiniteFloats ==
  (-8 .. 8) \cup {4 * 123, 4 * Pow2(IntBits), 4 * Pow2(IntBits + 1)}
  \cup {IntAsF64(n) : n \in (I64_MAX + 1) .. U64_MAX}

Texts ==
  { << >>,
    << "H", "i", " ", "W" >>,
    << " ", " ", "T", "e", "s", "t", " ", "\n" >>,
    << "4", "2" >>, << " ", "4", "2", " " >>, << "+", "7" >>, << "-", "4", "2" >>,
    << "-", "1", ".", "5" >>, << "1", ".", "5" >>,
    NatText(U64_MAX), NatText(U64_MAX + 1),
    << "t", "r", "u", "e" >>, << "T", "R", "U", "E" >>, << " ", "F", "a", "l", "s", "e", "\n" >>,
    << "f", "a", "l", "s", "e" >>, << "1" >>, << "0" >>, << "m", "a", "y", "b", "e" >>,
    ErrorMarker \o << " ", "x" >>, << " " >> \o ErrorMarker \o << " ", "x" >>,
    << "E", "r", "r", "(", "x", ")" >>, << "e", "r", "r", "o", "r", ":" >>,
    << "é" >>, << "\"", "\\" >> }

Elements ==
  {DInt(i) : i \in {-1, 0, 1, 128, U8_MAX, U8_MAX + 1}}
  \cup {DStr(<< "h", "i" >>), DStr(<< "é" >>), DStr(<< >>), DFloat("fin", 6), DBool(TRUE), UNIT}

RECURSIVE SeqsUpTo(_, _)
SeqsUpTo(S, n) ==
  IF n = 0 THEN { << >> }
  ELSE LET shorter == SeqsUpTo(S, n - 1) IN
         shorter \cup {Append(q, x) : q \in {r \in shorter : Len(r) = n - 1}, x \in S}

Maps == { << >>, << [key |-> << "a" >>, val |-> DInt(1)] >>,
          << [key |-> << "a" >>, val |-> DStr(<< "x" >>)], [key |-> << "b" >>, val |-> UNIT] >> }

Values ==
  {UNIT, DBool(TRUE), DBool(FALSE)}
  \cup {DInt(i) : i \in I64_MIN .. I64_MAX}
  \cup {DFloat("fin", q) : q \in FiniteFloats}
  \cup {DFloat("nan", 0), DFloat("inf", 0), DFloat("ninf", 0)}
  \cup {DStr(t) : t \in Texts}
  \cup {DArr(a) : a \in SeqsUpTo(Elements, MaxArrLen)}
  \cup {DMap(m) : m \in Maps}

Documents ==
  {NatText(n) : n \in 0 .. U64_MAX}
  \cup { << "x" >>, << "[", "1", ",", " ", "\"", "a", "\"", ",", " ", "n", "u", "l", "l", "]" >>, << "{", "\"", "b", "\"", ":", "1", ".", "5", ",", "\"", "a", "\"", ":",
     "t", "r", "u", "e", "}" >>, << "-", "7" >>, << "\"", "h", "i", "\"" >> }

\* the bodies of successful responses; the last is PreviewLen + 1 bytes long
\* with a two-byte character across byte PreviewLen
Bodies ==
  { << >>, << "{", "\"", "a", "\"", ":", "1", "}" >>, << "[", "1", ",", " ", "2", "]" >>, << "{", "\"", "b", "\"", ":", "\"", "x", "\"", ",", "\"", "a", "\"", ":",
     "t", "r", "u", "e", "}" >>, << "<", "h", "t", "m", "l", ">" >>, << "{", "b", "a", "d" >>, << "4", "2" >>,
    ErrorMarker \o << " ", "d", "o", "w", "n" >>,
    [i \in 1..(PreviewLen - 1) |-> "a"] \o << "é" >> }

Nets ==
  {NetResp(st, << >>) : st \in {"request_error", "http_error", "read_error"}}
  \cup {NetResp("ok", b) : b \in Bodies}

\* the values the helpers are called on
HelperArgs ==
  {UNIT, DInt(7), DBool(TRUE), DArr(<< DInt(1) >>)}
  \cup {DStr(t) : t \in { << "x" >>, << "O", "k", "(", "x", ")" >>, << "O", "k", "(", "f", "(", "x", ")", ")" >>, << "O", "k", "(", "O", "k", "(", "x", ")", ")" >>, << "O", "k", "(", "\"", "x", "\"", ")" >>, << "O", "k", "(", "\"", "\"", "x", "\"", "\"", ")" >>,
                          << "O", "k", "(", "4", "2", ")" >>, << "O", "k", "(", "{", "\"", "a", "\"", ":", "1", "}", ")" >>, << "{", "\"", "a", "\"", ":", "1", "}" >>, << "E", "r", "r", "(", "x", ")" >>, << "E", "r", "r", "(", "f", "(", "x", ")", ")" >>,
                          << "E", "r", "r", "o", "r", ":", " ", "x" >>, << " ", "E", "r", "r", "o", "r", ":", " ", "x" >>, << "e", "r", "r", "o", "r", ":", " ", "x" >> }}
  \cup {DResult(TRUE, << "{", "\"", "a", "\"", ":", "1", "}" >>), DResult(TRUE, << "E", "r", "r", "o", "r", ":", " ", "x" >>), DResult(FALSE, RequestError)}

Scripts ==
  {Script("value", d, << >>) : d \in Values}
  \cup {Script("parse_json", UNIT, doc) : doc \in Documents}
  \cup {Script(f, UNIT, << >>) : f \in {"syntax_error", "runtime_error", "panic"}}
  \cup {Fetch(f, net) : f \in FetchForms, net \in Nets}
  \cup {Script(f, d, << >>) : f \in HelperForms, d \in HelperArgs}

\* ---------------------------------------------------------------- the state
VARIABLES
  code,           \* the script of the invocation in progress
  expected_type,  \* its declared return type
  entry,          \* the entry point called: execute_rhai_code, execute_code
                  \* or process_data
  pc,             \* the caller: "idle", "await" (rx.await), "done", "unwound"
  worker,         \* the spawned thread: "none", "running", "done", "panicked"
  chan,           \* the oneshot channel (tx, rx)
  dynamic,        \* the value handed to convert_rhai_result, if it was called
  ret,            \* the Result of execute_rhai_code / execute_rhai_code_async
  response,       \* what the handler returned to the transport layer
  feed,           \* process_data: the stages before the script that fail
  envelope,       \* process_data: the signed response, once there is one
  calls,          \* the invocations in flight together, one for each caller
  left            \* the variables the scripts evaluated so far have defined

vars ==
  << code, expected_type, entry, pc, worker, chan, dynamic, ret, response, feed, envelope,
     calls, left >>

\* the state of one request followed in detail, and of the requests in flight
\* together
mainVars == << code, expected_type, entry, pc, worker, chan, dynamic, ret, response, feed, envelope >>
isoVars == << calls, left >>

\* the number of requests in flight together
MaxCallers == 2
Callers == 1..MaxCallers

NoScript == Script("none", UNIT, << >>)
NoDynamic == [called |-> FALSE, d |-> UNIT]
NoRet == Err("", << >>, "")
EmptyChan == [st |-> "empty", ok |-> FALSE, text |-> << >>]
NoResponse == [transport |-> "none", success |-> FALSE, error |-> [some |-> FALSE, e |-> NoErr], result |-> None]
NoFeed == [fails |-> {}]
NoEnvelope == [signed |-> FALSE, intent_scope |-> "none", result |-> None]
IdleCall ==
  [code |-> NoScript, expected_type |-> "STRING", entry |-> "none", pc |-> "idle",
   worker |-> "none", chan |-> EmptyChan, sends |-> 0, send_result |-> "none",
   engine |-> {}, coerced |-> FALSE, ret |-> NoRet]

Init ==
  /\ code = NoScript
  /\ expected_type = "STRING"
  /\ entry = "none"
  /\ pc = "idle"
  /\ worker = "none"
  /\ chan = EmptyChan
  /\ dynamic = NoDynamic
  /\ ret = NoRet
  /\ response = NoResponse
  /\ feed = NoFeed
  /\ envelope = NoEnvelope
  /\ calls = [i \in Callers |-> IdleCall]
  /\ left = {}

\* execute_rhai_code: evaluate on the calling thread and coerce
execute_rhai_code(c, t) ==
  With(Eval(c), LAMBDA result :
    IF result.outcome = "ok" THEN convert_rhai_result(result.d, t)
    ELSE Err(ScriptError, result.e, ""))

ExecuteRhaiCode ==
  /\ pc = "idle"
  /\ \E c \in Scripts, t \in ReturnType :
       /\ code' = c
       /\ expected_type' = t
       /\ \E result \in {Eval(c)} :
            IF result.outcome = "panic"
              THEN pc' = "unwound" /\ UNCHANGED << dynamic, ret >>
              ELSE /\ pc' = "done"
                   /\ dynamic' = [called |-> result.outcome = "ok", d |-> result.d]
                   /\ ret' = execute_rhai_code(c, t)
  /\ entry' = "execute_rhai_code"
  /\ UNCHANGED << worker, chan, response, feed, envelope >>
  /\ UNCHANGED isoVars

\* execute_code -> execute_rhai_code_async, up to rx.await: the channel is
\* created and the worker thread is spawned
ExecuteCode ==
  /\ pc = "idle"
  /\ \E c \in Scripts, t \in ReturnType : code' = c /\ expected_type' = t
  /\ entry' = "execute_code"
  /\ chan' = EmptyChan
  /\ worker' = "running"
  /\ pc' = "await"
  /\ UNCHANGED << dynamic, ret, response, feed, envelope >>
  /\ UNCHANGED isoVars

\* process_data up to the script: the steps in the order of the code, each
\* with what its failure does.  "feed_id" is Address::from_hex, "get_object"
\* the ledger request, "no_bcs" an answer without BCS data, "object_bcs" and
\* "feed_bcs" the two bcs::from_bytes (a feed whose extension or return type
\* is not a variant of the enums fails the second), "not_struct" as_struct,
\* "clock" duration_since, "blob_get" reqwest::get and "blob_text"
\* response.text().  A step that ends in `?` returns the error; a step that
\* ends in unwrap() panics.
Stages ==
  << "feed_id", "get_object", "no_bcs", "object_bcs", "not_struct", "feed_bcs",
     "clock", "blob_get", "blob_text" >>

Unwrapped == {"get_object", "no_bcs", "blob_get", "blob_text"}

InvalidFeedId == "Invalid feed_id format"
ObjectBcsError == "Failed to deserialize object"
NotMoveObject == "Object is not a Move object"
FeedBcsError == "Failed to deserialize OracleFeed"
ClockError == "Failed to get current timestamp"
ExecuteFailed == "Failed to execute Rhai code"
UnsupportedExtension == "Unsupported code extension"

StageError(stage) ==
  IF stage = "feed_id" THEN InvalidFeedId
  ELSE IF stage = "object_bcs" THEN ObjectBcsError
  ELSE IF stage = "not_struct" THEN NotMoveObject
  ELSE IF stage = "feed_bcs" THEN FeedBcsError
  ELSE ClockError

\* the first step that fails, 0 when none does
FirstFailure(fails) ==
  IF \E i \in 1..Len(Stages) : Stages[i] \in fails
    THEN CHOOSE i \in 1..Len(Stages) : Stages[i] \in fails /\ \A j \in 1..(i - 1) : Stages[j] \notin fails
    ELSE 0

\* the response of process_data for a returned error
ErrResponse(e) ==
  [transport |-> "Err", success |-> FALSE, error |-> [some |-> TRUE, e |-> e], result |-> None]

\* the sets of failing steps a request meets
FailSets == {f \in SUBSET {Stages[i] : i \in 1..Len(Stages)} : Cardinality(f) <= 2}

\* process_data, up to rx.await inside execute_rhai_code_async: an early
\* error is returned, a failed unwrap() unwinds the handler, and otherwise
\* the body of the blob is run as the script with the feed's return type
ProcessData ==
  /\ pc = "idle"
  /\ \E f \in FailSets :
       /\ feed' = [fails |-> f]
       /\ IF FirstFailure(f) = 0
            THEN /\ \E c \in Scripts, t \in ReturnType : code' = c /\ expected_type' = t
                 /\ chan' = EmptyChan
                 /\ worker' = "running"
                 /\ pc' = "await"
                 /\ UNCHANGED response
            ELSE /\ IF Stages[FirstFailure(f)] \in Unwrapped
                      THEN pc' = "unwound" /\ UNCHANGED response
                      ELSE /\ pc' = "done"
                           /\ response' = ErrResponse([msg |-> StageError(Stages[FirstFailure(f)]),
                                                       arg |-> << >>, cause |-> ""])
                 /\ UNCHANGED << code, expected_type, worker, chan >>
  /\ entry' = "process_data"
  /\ UNCHANGED << dynamic, ret, envelope >>
  /\ UNCHANGED isoVars

\* the Send-safe representation of the evaluation result
dynamic_to_json(d) ==
  IF d.k = "()" THEN JNull
  ELSE IF d.k = "bool" THEN JBool(d.b)
  ELSE IF d.k = "i64" THEN JInt(d.n)
  ELSE IF d.k = "f64" THEN (IF d.fc = "fin" THEN JFloat(d.n) ELSE JNull)
  ELSE IF d.k = "string" THEN JString(d.s)
  ELSE JString(to_string(d))

sendable_result(result) ==
  IF result.outcome = "ok"
    THEN [st |-> "sent", ok |-> TRUE, text |-> json_to_string(dynamic_to_json(result.d))]
    ELSE [st |-> "sent", ok |-> FALSE, text |-> result.e]

\* the body of the spawned thread: evaluate, serialize, tx.send; a panic
\* drops tx without sending
WorkerRun ==
  /\ worker = "running"
  /\ \E result \in {Eval(code)} :
       IF result.outcome = "panic"
         THEN worker' = "panicked" /\ chan' = [EmptyChan EXCEPT !.st = "closed"]
         ELSE worker' = "done" /\ chan' = sendable_result(result)
  /\ UNCHANGED << code, expected_type, entry, pc, dynamic, ret, response, feed, envelope >>
  /\ UNCHANGED isoVars

\* variant: a worker that died is reported as a failure of the script
execute_rhai_code_async_one_error(msg, t) ==
  IF msg.st = "closed" \/ ~msg.ok THEN Err(ScriptError, msg.text, "")
  ELSE IF ~from_str(msg.text).ok THEN Err(ResultJsonError, << >>, "")
  ELSE convert_rhai_result(json_value_to_dynamic(from_str(msg.text).v), t)

\* execute_rhai_code_async from rx.await on
async_dynamic(msg) ==
  With(from_str(msg.text), LAMBDA json_value :
    IF msg.st = "sent" /\ msg.ok /\ json_value.ok
      THEN [called |-> TRUE, d |-> json_value_to_dynamic(json_value.v)]
      ELSE NoDynamic)

execute_rhai_code_async(msg, t) ==
  IF msg.st = "closed" THEN Err(IsolationBroken, << >>, "")
  ELSE IF ~msg.ok THEN Err(ScriptError, msg.text, "")
  ELSE IF ~from_str(msg.text).ok THEN Err(ResultJsonError, << >>, "")
  ELSE With(async_dynamic(msg), LAMBDA rhai_result : convert_rhai_result(rhai_result.d, t))

\* variant: an execution error is propagated to the transport layer
execute_code_propagating(r) ==
  IF r.ok /\ r.val.t # "None"
    THEN [transport |-> "Ok", success |-> TRUE, error |-> [some |-> FALSE, e |-> NoErr], result |-> r.val]
  ELSE IF r.ok
    THEN [transport |-> "Ok", success |-> FALSE,
          error |-> [some |-> TRUE, e |-> [msg |-> NoResult, arg |-> << >>, cause |-> ""]],
          result |-> RvSTRING(<< >>)]
  ELSE [transport |-> "Err", success |-> FALSE, error |-> [some |-> TRUE, e |-> r.err],
        result |-> None]

\* execute_code: the response built from the result of the execution
execute_code(r) ==
  IF r.ok /\ r.val.t # "None"
    THEN [transport |-> "Ok", success |-> TRUE, error |-> [some |-> FALSE, e |-> NoErr], result |-> r.val]
  ELSE IF r.ok
    THEN [transport |-> "Ok", success |-> FALSE,
          error |-> [some |-> TRUE, e |-> [msg |-> NoResult, arg |-> << >>, cause |-> ""]],
          result |-> RvSTRING(<< >>)]
  ELSE [transport |-> "Ok", success |-> FALSE, error |-> [some |-> TRUE, e |-> r.err],
        result |-> RvSTRING(<< >>)]

\* variant: a failed execution is answered in band, as execute_code does
process_data_in_band(extension, r) == execute_code(r)

\* process_data after execute_rhai_code_async: map_err, ok_or_else and
\* to_signed_response.  The feed was deserialized, so its extension is RHAI.
process_data(extension, r) ==
  IF extension # "RHAI" THEN ErrResponse([msg |-> UnsupportedExtension, arg |-> << >>, cause |-> ""])
  ELSE IF ~r.ok THEN ErrResponse([msg |-> ExecuteFailed, arg |-> r.err.arg, cause |-> r.err.msg])
  ELSE IF r.val.t = "None" THEN ErrResponse([msg |-> NoResult, arg |-> << >>, cause |-> ""])
  ELSE [transport |-> "Ok", success |-> TRUE, error |-> [some |-> FALSE, e |-> NoErr], result |-> r.val]

\* to_signed_response(&state.eph_kp, update_oracle_response, timestamp_ms,
\* IntentScope::ProcessData)
to_signed_response(resp) ==
  IF resp.transport = "Ok"
    THEN [signed |-> TRUE, intent_scope |-> "ProcessData", result |-> resp.result]
    ELSE NoEnvelope

\* rx.await completes: the rest of execute_rhai_code_async and of the
\* handler that called it
Receive ==
  /\ pc = "await"
  /\ chan.st # "empty"
  /\ dynamic' = async_dynamic(chan)
  /\ \E r \in {execute_rhai_code_async(chan, expected_type)} :
       /\ ret' = r
       /\ IF entry = "process_data"
            THEN \E resp \in {process_data("RHAI", r)} :
                   response' = resp /\ envelope' = to_signed_response(resp)
            ELSE response' = execute_code(r) /\ UNCHANGED envelope
  /\ pc' = "done"
  /\ UNCHANGED << code, expected_type, entry, worker, chan, feed >>
  /\ UNCHANGED isoVars

\* the call is over; the next request starts from nothing
Return ==
  /\ pc \in {"done", "unwound"}
  /\ code' = NoScript
  /\ expected_type' = "STRING"
  /\ entry' = "none"
  /\ pc' = "idle"
  /\ worker' = "none"
  /\ chan' = EmptyChan
  /\ dynamic' = NoDynamic
  /\ ret' = NoRet
  /\ response' = NoResponse
  /\ feed' = NoFeed
  /\ envelope' = NoEnvelope
  /\ UNCHANGED isoVars

Next ==
  \/ ExecuteRhaiCode
  \/ ExecuteCode
  \/ ProcessData
  \/ WorkerRun
  \/ Receive
  \/ Return

Spec == Init /\ [][Next]_vars

\* ------------------------------------------- invocations in flight together
\* What a function or a feature of the language lets a script reach.
Cap(name, grants) == [name |-> name, grants |-> grants]

\* Engine::new(): the language and its standard packages.  The import
\* statement loads script files of the host through the default
\* FileModuleResolver, eval runs a string as code, print and debug write to
\* the standard output.
Engine_new ==
  {Cap("import", "load_code"), Cap("eval", "load_code"), Cap("print", "stdout"),
   Cap("debug", "stdout"), Cap("StandardPackage", "none"), Cap("BasicStringPackage", "none")}

\* setup_rhai_engine: the functions registered on the engine
setup_rhai_engine ==
  Engine_new
  \cup {Cap(f, "network") : f \in FetchForms}
  \cup {Cap(f, "none") : f \in {"join", "contains_key", "parse_json", "to_string", "is_err",
                                 "is_ok", "unwrap", "unwrap_string", "err"}}
  \cup {Cap("error", "stderr")}

\* the engine execute_rhai_code_async builds in the worker thread
AsyncEngine == setup_rhai_engine \cup {Cap("debug_result", "none"), Cap("debug_print", "stderr")}

\* variant: the scope of the last evaluation is used again
Scope_new_shared(prior) == prior

\* Scope::new(): empty, whatever earlier evaluations have defined
Scope_new(prior) == {}

IsoScripts ==
  {Script("value", DInt(42), << >>)}
  \cup {Script(f, UNIT, << >>) :
          f \in {"let_counter", "read_counter", "syntax_error", "runtime_error", "panic", "hang"}}

IsoTypes == {"NUMBER", "STRING"}

\* execute_rhai_code for one of the callers
CallSync(i) ==
  /\ calls[i].pc = "idle"
  /\ \E c \in IsoScripts, t \in IsoTypes :
       /\ Terminates(c)
       /\ \E result \in {eval_with_scope(Scope_new(left), c)} :
            /\ calls' = [calls EXCEPT ![i] =
                 [IdleCall EXCEPT !.code = c, !.expected_type = t, !.entry = "execute_rhai_code",
                                  !.engine = setup_rhai_engine,
                                  !.pc = IF result.outcome = "panic" THEN "unwound" ELSE "done",
                                  !.coerced = result.outcome = "ok",
                                  !.ret = IF result.outcome = "ok" THEN convert_rhai_result(result.d, t)
                                          ELSE IF result.outcome = "err" THEN Err(ScriptError, result.e, "")
                                          ELSE NoRet]]
            /\ left' = left \cup result.scope
  /\ UNCHANGED mainVars

\* execute_rhai_code_async up to rx.await: the channel is created and the
\* worker thread is spawned
Spawn(i) ==
  /\ calls[i].pc = "idle"
  /\ \E c \in IsoScripts, t \in IsoTypes :
       calls' = [calls EXCEPT ![i] =
         [IdleCall EXCEPT !.code = c, !.expected_type = t, !.entry = "execute_rhai_code_async",
                          !.pc = "await", !.worker = "running"]]
  /\ UNCHANGED << mainVars, left >>

\* tx.send(sendable_result): the message is lost when rx has been dropped,
\* and the send returns it in an Err
tx_send(ch, msg) == IF ch.st = "rx_dropped" THEN ch ELSE msg

tx_send_result(ch) == IF ch.st = "rx_dropped" THEN "Err" ELSE "Ok"

\* tx is dropped without a send
tx_drop(ch) == IF ch.st = "rx_dropped" THEN ch ELSE [EmptyChan EXCEPT !.st = "closed"]

\* variant: the result of the send is unwrapped
worker_end_unwrap(ch, result) ==
  IF result.outcome = "panic" \/ ch.st = "rx_dropped" THEN "panicked" ELSE "done"

\* how the worker thread ends: `let _ = tx.send(..)` ignores a failed send
worker_end(ch, result) ==
  IF result.outcome = "panic" THEN "panicked" ELSE "done"

\* variant: the workers share one thread, taken in the order of the callers
Runnable_one_thread(i) ==
  /\ calls[i].worker = "running" /\ Terminates(calls[i].code)
  /\ \A j \in 1..(i - 1) : calls[j].worker # "running"

\* std::thread::spawn gives every worker a thread of its own: it evaluates
\* whatever the other workers do, and ends when its script does
Runnable(i) == calls[i].worker = "running" /\ Terminates(calls[i].code)

\* the body of the spawned thread, for a script that ends
Work(i) ==
  /\ Runnable(i)
  /\ \E c \in {calls[i]} :
     \E result \in {eval_with_scope(Scope_new(left), c.code)} :
       /\ calls' = [calls EXCEPT ![i] =
            [c EXCEPT !.engine = AsyncEngine,
                      !.worker = worker_end(c.chan, result),
                      !.chan = IF result.outcome = "panic" THEN tx_drop(c.chan)
                               ELSE tx_send(c.chan, sendable_result(result)),
                      !.sends = IF result.outcome = "panic" THEN @ ELSE @ + 1,
                      !.send_result = IF result.outcome = "panic" THEN @
                                      ELSE tx_send_result(c.chan)]]
       /\ left' = left \cup result.scope
  /\ UNCHANGED mainVars

\* rx.await completes: the rest of execute_rhai_code_async
Recv(i) ==
  /\ calls[i].pc = "await"
  /\ calls[i].chan.st \in {"sent", "closed"}
  /\ calls' = [calls EXCEPT ![i] =
       [calls[i] EXCEPT !.pc = "done",
                        !.coerced = async_dynamic(calls[i].chan).called,
                        !.ret = execute_rhai_code_async(calls[i].chan, calls[i].expected_type)]]
  /\ UNCHANGED << mainVars, left >>

\* the caller gives up the await (its future is dropped): rx is dropped
Abandon(i) ==
  /\ calls[i].pc = "await"
  /\ calls' = [calls EXCEPT ![i] =
       [calls[i] EXCEPT !.pc = "abandoned", !.chan = [EmptyChan EXCEPT !.st = "rx_dropped"]]]
  /\ UNCHANGED << mainVars, left >>

\* the call is over and its thread has ended
Finish(i) ==
  /\ calls[i].pc \in {"done", "abandoned", "unwound"}
  /\ calls[i].worker # "running"
  /\ calls' = [calls EXCEPT ![i] = IdleCall]
  /\ UNCHANGED << mainVars, left >>

NextIso ==
  \/ \E i \in Callers : CallSync(i)
  \/ \E i \in Callers : Spawn(i)
  \/ \E i \in Callers : Work(i)
  \/ \E i \in Callers : Recv(i)
  \/ \E i \in Callers : Abandon(i)
  \/ \E i \in Callers : Finish(i)

SpecIso == Init /\ [][NextIso]_vars

\* The operating system runs every thread that can run, and the runtime polls
\* a task whose channel has a message or has been closed.
FairIso ==
  /\ SpecIso
  /\ \A i \in Callers : WF_vars(Work(i))
  /\ \A i \in Callers : WF_vars(Recv(i))

\* ------------------------------------------------------------------- claims
\* convert_rhai_result was applied to dynamic.d with expected_type, giving ret
Coerced == pc = "done" /\ dynamic.called

\* execute_code has returned its response
AsyncDone == pc = "done" /\ entry = "execute_code"

IntElements(a) == a # << >> /\ \A i \in 1..Len(a) : a[i].k = "i64"
InByteRange(a) == \A i \in 1..Len(a) : a[i].k = "i64" => (a[i].n >= 0 /\ a[i].n <= U8_MAX)

\* C1: execute_code on a script whose result is a sequence of integers, with
\* declared type VECTOR, answers success=true with VECTOR of exactly those
\* integers when all lie in [0,255], and success=false with the out-of-range
\* error otherwise.
C1_ExecuteCodeVector ==
  (AsyncDone /\ expected_type = "VECTOR" /\ code.form = "value"
     /\ code.d.k = "array" /\ IntElements(code.d.a))
  => IF InByteRange(code.d.a)
       THEN /\ response.success
            /\ response.result = RvVECTOR([i \in 1..Len(code.d.a) |-> code.d.a[i].n])
       ELSE /\ ~response.success
            /\ response.error.some
            /\ response.error.e.msg = ByteOutOfRange

\* C2: for every n in 0..U64_MAX, a script result equal to n (an integer
\* value, or the number n decoded from a JSON document) coerced with declared
\* type NUMBER gives NUMBER(n) exactly.
C2_NumberExact ==
  /\ (pc = "done" /\ expected_type = "NUMBER" /\ code.form = "parse_json" /\ AllDigits(code.doc))
       => ret = Ok(RvNUMBER(NatOf(code.doc, 0)))
  /\ (pc = "done" /\ expected_type = "NUMBER" /\ code.form = "value"
        /\ code.d.k = "i64" /\ code.d.n >= 0)
       => ret = Ok(RvNUMBER(code.d.n))

\* the text of a negative number: '-', digits, an optional fraction, not zero
NegativeText(s) ==
  /\ Len(s) >= 2
  /\ Head(s) = "-"
  /\ \A i \in 2..Len(s) : IsDigit(s[i]) \/ s[i] = "."
  /\ Cardinality({i \in 2..Len(s) : s[i] = "."}) <= 1
  /\ IsDigit(s[2]) /\ IsDigit(s[Len(s)])
  /\ \E i \in 2..Len(s) : IsDigit(s[i]) /\ s[i] # "0"

NegativeValue(d) ==
  \/ d.k = "i64" /\ d.n < 0
  \/ d.k = "f64" /\ (d.fc = "ninf" \/ (d.fc = "fin" /\ d.n < 0))
  \/ d.k = "string" /\ NegativeText(trim(d.s))

\* C3: coercion to NUMBER of a negative value - integer, float or the text of
\* a negative number - fails with NegativeNumber and never returns a NUMBER.
C3_NegativeRejected ==
  (Coerced /\ expected_type = "NUMBER" /\ NegativeValue(dynamic.d))
  => (~ret.ok /\ ret.val = None /\ ret.err.msg = NegativeNumber)

RECURSIVE ExpectedBytes(_)
ExpectedBytes(a) ==
  IF a = << >> THEN << >>
  ELSE (IF Head(a).k = "i64" THEN << Head(a).n >> ELSE as_bytes(Head(a).s)) \o ExpectedBytes(Tail(a))

\* C4: a sequence whose elements are integers in [0,255] or texts, coerced
\* with declared type VECTOR, gives VECTOR of the integers unchanged and the
\* raw bytes of the texts, in position order.
C4_VectorBytes ==
  (Coerced /\ expected_type = "VECTOR" /\ dynamic.d.k = "array"
     /\ \A i \in 1..Len(dynamic.d.a) :
          \/ dynamic.d.a[i].k = "string"
          \/ dynamic.d.a[i].k = "i64" /\ dynamic.d.a[i].n >= 0 /\ dynamic.d.a[i].n <= U8_MAX)
  => ret = Ok(RvVECTOR(ExpectedBytes(dynamic.d.a)))

C4_Witness ==
  /\ Coerced /\ expected_type = "VECTOR"
  /\ dynamic.d = DArr(<< DInt(U8_MAX), DStr(<< "h", "i" >>) >>)
  /\ ret = Ok(RvVECTOR(<< 255, 104, 105 >>))

\* C5: a sequence holding an integer above 255 or below 0, at any position and
\* whatever its other elements, fails VECTOR coercion with ByteOutOfRange or
\* UnsupportedElementType, and no vector is returned.
C5_OutOfRangeRejected ==
  (Coerced /\ expected_type = "VECTOR" /\ dynamic.d.k = "array"
     /\ \E i \in 1..Len(dynamic.d.a) :
          dynamic.d.a[i].k = "i64" /\ (dynamic.d.a[i].n > U8_MAX \/ dynamic.d.a[i].n < 0))
  => /\ ~ret.ok
     /\ ret.val = None
     /\ ret.err.msg \in {ByteOutOfRange, UnsupportedElementType}

C5_Witness ==
  /\ Coerced /\ expected_type = "VECTOR"
  /\ dynamic.d = DArr(<< DInt(1), DInt(U8_MAX + 1) >>)
  /\ ~ret.ok /\ ret.err.msg = ByteOutOfRange /\ ret.err.arg = << "2", "5", "6" >>

\* t is s without its leading and trailing whitespace
TrimOf(s, t) ==
  /\ (t # << >> => ~IsWhite(t[1]) /\ ~IsWhite(t[Len(t)]))
  /\ \E i \in 0..Len(s) :
       /\ i + Len(t) <= Len(s)
       /\ \A j \in 1..Len(t) : s[i + j] = t[j]
       /\ \A j \in 1..Len(s) : (j <= i \/ j > i + Len(t)) => IsWhite(s[j])

\* C6: with declared type STRING coercion succeeds for every value and gives
\* STRING(t), t the value's text without leading and trailing whitespace.
C6_StringTrimmed ==
  (Coerced /\ expected_type = "STRING")
  => /\ ret.ok
     /\ ret.val.t = "STRING"
     /\ ret.val = RvSTRING(ret.val.s)
     /\ TrimOf(to_string(dynamic.d), ret.val.s)

C6_Witness ==
  /\ Coerced /\ expected_type = "STRING"
  /\ dynamic.d = DStr(<< " ", " ", "T", "e", "s", "t", " ", "\n" >>)
  /\ ret = Ok(RvSTRING(<< "T", "e", "s", "t" >>))

\* C7: with declared type BOOLEAN a boolean is returned as it is; any other
\* value is judged by its trimmed, lower-cased text: "true" and "1" give true,
\* "false" and "0" give false, everything else fails with NotABoolean.
C7_BooleanCoercion ==
  (Coerced /\ expected_type = "BOOLEAN")
  => IF dynamic.d.k = "bool" THEN ret = Ok(RvBOOLEAN(dynamic.d.b))
     ELSE LET s == to_lowercase(trim(to_string(dynamic.d))) IN
       /\ (s \in {<< "t", "r", "u", "e" >>, << "1" >>}) => ret = Ok(RvBOOLEAN(TRUE))
       /\ (s \in {<< "f", "a", "l", "s", "e" >>, << "0" >>}) => ret = Ok(RvBOOLEAN(FALSE))
       /\ (s \notin {<< "t", "r", "u", "e" >>, << "1" >>, << "f", "a", "l", "s", "e" >>, << "0" >>})
            => (~ret.ok /\ ret.val = None /\ ret.err.msg = NotABoolean)

C7_Witness ==
  /\ Coerced /\ expected_type = "BOOLEAN"
  /\ dynamic.d = DStr(<< " ", "F", "a", "l", "s", "e", "\n" >>)
  /\ ret = Ok(RvBOOLEAN(FALSE))

\* C8: execute_code always answers the transport call with a response; a
\* syntax or runtime error, a broken isolation and a failed coercion are told
\* in the response (success=false, error present), and success=true holds
\* exactly when no error is present, the result then being the coerced value.
C8_ExecuteCodeInBand ==
  AsyncDone
  => /\ response.transport = "Ok"
     /\ response.success <=> ~response.error.some
     /\ response.success <=> ret.ok
     /\ response.success => (dynamic.called /\ response.result = ret.val
                              /\ response.result.t = expected_type)
     /\ ~response.success => (response.error.e = ret.err /\ response.error.e.msg # "")
     /\ code.form \in {"syntax_error", "runtime_error"} => response.error.e.msg = ScriptError
     /\ code.form = "panic" => response.error.e.msg = IsolationBroken
     /\ (dynamic.called /\ ~response.success)
          => response.error.e.msg \in {NegativeNumber, ScriptReportedError, NotANumber, NotABoolean,
                                        ByteOutOfRange, UnsupportedElementType}

C8_Witness ==
  /\ AsyncDone /\ code.form = "panic"
  /\ response.transport = "Ok" /\ ~response.success
  /\ response.error.some /\ response.error.e.msg = IsolationBroken

\* C9 as stated: in NUMBER coercion of a value that is neither integer nor
\* float, a text beginning with "Error:" fails with ScriptReportedError
\* carrying that text, and every other text that does not parse as an unsigned
\* integer (surrounding whitespace aside) fails with NotANumber.
C9_ErrorMarkerFirst ==
  (Coerced /\ expected_type = "NUMBER" /\ dynamic.d.k \notin {"i64", "f64"})
  => LET s == to_string(dynamic.d) IN
       IF starts_with(s, ErrorMarker)
         THEN ~ret.ok /\ ret.err.msg = ScriptReportedError /\ ret.err.arg = s
         ELSE ~parse_u64(trim(s)).ok => (~ret.ok /\ ret.err.msg = NotANumber)

\* C9 amended: the text is taken with its surrounding whitespace removed; if
\* that begins with "Error:" the coercion fails with ScriptReportedError
\* carrying it, and every other trimmed text that does not parse as an unsigned
\* integer fails with NotANumber.
C9_TrimmedErrorMarkerFirst ==
  (Coerced /\ expected_type = "NUMBER" /\ dynamic.d.k \notin {"i64", "f64"})
  => LET s == trim(to_string(dynamic.d)) IN
       IF starts_with(s, ErrorMarker)
         THEN ~ret.ok /\ ret.val = None /\ ret.err.msg = ScriptReportedError /\ ret.err.arg = s
         ELSE ~parse_u64(s).ok => (~ret.ok /\ ret.val = None /\ ret.err.msg = NotANumber)

C9_Witness ==
  /\ Coerced /\ expected_type = "NUMBER"
  /\ dynamic.d = DStr(ErrorMarker \o << " ", "x" >>)
  /\ ~ret.ok /\ ret.err.msg = ScriptReportedError /\ ret.err.arg = ErrorMarker \o << " ", "x" >>

\* C10 as stated: in NUMBER coercion a non-negative float gives the unsigned
\* integer obtained by truncating it toward zero.
C10_FloatTruncated ==
  (Coerced /\ expected_type = "NUMBER" /\ dynamic.d.k = "f64"
     /\ dynamic.d.fc = "fin" /\ dynamic.d.n >= 0)
  => /\ ret.ok /\ ret.val = RvNUMBER(ret.val.n)
     /\ 4 * ret.val.n <= dynamic.d.n
     /\ dynamic.d.n < 4 * ret.val.n + 4

\* C10 amended: a non-negative float is truncated toward zero when the
\* truncated value is at most U64_MAX, and gives U64_MAX when it is larger
\* (and for +infinity); it is never rounded to nearest.
C10_FloatTruncatedSaturating ==
  (Coerced /\ expected_type = "NUMBER" /\ dynamic.d.k = "f64"
     /\ (dynamic.d.fc = "inf" \/ (dynamic.d.fc = "fin" /\ dynamic.d.n >= 0)))
  => /\ ret.ok /\ ret.val = RvNUMBER(ret.val.n)
     /\ IF dynamic.d.fc = "fin" /\ dynamic.d.n < 4 * (U64_MAX + 1)
          THEN 4 * ret.val.n <= dynamic.d.n /\ dynamic.d.n < 4 * ret.val.n + 4
          ELSE ret.val.n = U64_MAX

C10_Witness ==
  /\ Coerced /\ expected_type = "NUMBER"
  /\ dynamic.d = DFloat("fin", 7)
  /\ ret = Ok(RvNUMBER(1))

\* process_data is over: it returned, or it unwound
PipelineOver == entry = "process_data" /\ pc \in {"done", "unwound"}

\* the messages that name the stage an error of process_data comes from
StageTags ==
  {InvalidFeedId, ObjectBcsError, NotMoveObject, FeedBcsError, ClockError,
   ExecuteFailed, NoResult, UnsupportedExtension}

\* C12: in process_data every failure at any stage (feed-object retrieval,
\* payload fetch, script execution, coercion) is returned to the caller as an
\* error value that names its stage; the first failure short-circuits the
\* later stages, and no stage failure ends the request in any other way.
C12_StageErrorsReturned ==
  /\ (PipelineOver /\ ~envelope.signed)
       => /\ pc = "done"
          /\ response.transport = "Err" /\ response.error.some
          /\ response.error.e.msg \in StageTags
  /\ (PipelineOver /\ feed.fails # {}) => (worker = "none" /\ ~dynamic.called)

\* execute_rhai_code has coerced the value the script evaluated to
SyncCoerced == Coerced /\ entry = "execute_rhai_code"

\* the network failed: unreachable host, status outside 2xx, unreadable body
FetchFailed ==
  code.form \in FetchForms /\ code.net.st \in {"request_error", "http_error", "read_error"}

\* C14: each of http_get, http_get_json, fetch_json and http_get_string,
\* called against an unreachable host, a non-2xx response or an unreadable
\* body, returns a value to the script (evaluation is not aborted), and that
\* value returned verbatim with declared type STRING coerces to a string that
\* begins with the reserved error marker "Error:".
C14_FetchFailureMarked ==
  (pc \in {"done", "unwound"} /\ FetchFailed)
  => /\ pc = "done" /\ dynamic.called
     /\ expected_type = "STRING"
          => (ret.ok /\ ret.val.t = "STRING" /\ starts_with(ret.val.s, ErrorMarker))

\* the value that mirrors a JSON value
MirrorScalar(v) ==
  IF v.j = "Null" THEN UNIT
  ELSE IF v.j = "Bool" THEN DBool(v.b)
  ELSE IF v.j = "Number" THEN (IF v.nk = "Float" THEN DFloat("fin", v.n) ELSE DInt(v.n))
  ELSE DStr(v.s)

Mirror(v) ==
  IF v.j = "Array" THEN DArr([i \in 1..Len(v.a) |-> MirrorScalar(v.a[i])])
  ELSE IF v.j = "Object"
    THEN DMap([i \in 1..Len(v.o) |-> [key |-> v.o[i].key, val |-> MirrorScalar(v.o[i].val)]])
  ELSE MirrorScalar(v)

\* C18: the value decoded from a JSON document mirrors the document: null is
\* unit, a boolean a boolean, every integer an integer of the same value, a
\* non-integral number a float, a string a string, an array the sequence of
\* its elements in order, an object the map of its keys to the converted
\* values.
C18_JsonMirrored ==
  (SyncCoerced /\ code.form = "parse_json" /\ from_str(code.doc).ok)
  => dynamic.d = Mirror(from_str(code.doc).v)

\* the string form starts with a reserved error marker
Marked(s) == starts_with(s, ErrPrefix) \/ starts_with(s, ErrorMarker)

\* the string form is Ok(<inner>), and its <inner>
OkWrapped(s) == starts_with(s, OkPrefix) /\ s[Len(s)] = ")"
Inner(s) == SubSeq(s, Len(OkPrefix) + 1, Len(s) - 1)

\* one layer of surrounding quotes removed, when present
Unquoted(t) ==
  IF Len(t) >= 2 /\ Head(t) = "\"" /\ t[Len(t)] = "\"" THEN SubSeq(t, 2, Len(t) - 1) ELSE t

\* C19: for every value, is_err is true and is_ok is false exactly when the
\* string form of the value starts with "Err(" or "Error:"; unwrap of a value
\* whose string form is Ok(<inner>) returns exactly <inner>, and unwrap_string
\* returns <inner> with one layer of surrounding quotes removed when present.
C19_HelperConvention ==
  /\ (SyncCoerced /\ code.form = "is_err") => dynamic.d = DBool(Marked(to_string(code.d)))
  /\ (SyncCoerced /\ code.form = "is_ok") => dynamic.d = DBool(~Marked(to_string(code.d)))
  /\ (SyncCoerced /\ code.form = "unwrap" /\ OkWrapped(to_string(code.d)))
       => dynamic.d = DStr(Inner(to_string(code.d)))
  /\ (SyncCoerced /\ code.form = "unwrap_string" /\ OkWrapped(to_string(code.d)))
       => dynamic.d = DStr(Unquoted(Inner(to_string(code.d))))

\* a value that reports a failure: a string with a reserved error marker
FailureValue(d) == d.k = "string" /\ Marked(d.s)

\* C20: parse_json(x) decodes x when x is a plain string, decodes <text> when
\* x is the success Ok(<text>) of a fallible operation, and returns a failure
\* value when x is a failure of a fallible operation; a document that does
\* not decode gives the string "Error: <message>" as a value and the script
\* goes on.
C20_ParseJsonUnwraps ==
  (pc \in {"done", "unwound"} /\ entry = "execute_rhai_code" /\ code.form = "parse_json_of")
  => /\ SyncCoerced
     /\ IF code.d.k = "variant"
          THEN (IF code.d.b THEN dynamic.d = parse_json(code.d.s) ELSE FailureValue(dynamic.d))
        ELSE IF code.d.k = "string" /\ Marked(code.d.s) THEN FailureValue(dynamic.d)
        ELSE IF code.d.k = "string"
          THEN \/ dynamic.d = parse_json(code.d.s)
               \/ OkWrapped(code.d.s) /\ dynamic.d = parse_json(Inner(code.d.s))
        ELSE TRUE
     /\ (dynamic.d.k = "string" /\ ~from_str(to_string(code.d)).ok /\ code.d.k # "variant"
           /\ ~OkWrapped(to_string(code.d)))
          => starts_with(dynamic.d.s, ErrorMarker)

\* what the invocation c returns when no other invocation has ever run: the
\* script is evaluated by a new engine with an empty scope
Alone(c) ==
  With(eval_with_scope({}, c.code), LAMBDA r :
    IF c.entry = "execute_rhai_code"
      THEN (IF r.outcome = "ok" THEN convert_rhai_result(r.d, c.expected_type)
            ELSE Err(ScriptError, r.e, ""))
      ELSE execute_rhai_code_async(
             IF r.outcome = "panic" THEN [EmptyChan EXCEPT !.st = "closed"] ELSE sendable_result(r),
             c.expected_type))

\* C11: no invocation shares interpreter state with another: what an
\* invocation of execute_rhai_code or execute_rhai_code_async returns is what
\* it returns alone, whatever the invocations before it or together with it
\* have defined; in particular a variable set by one script is not visible
\* to the next.
C11_NoSharedInterpreterState ==
  \A i \in Callers :
    calls[i].pc = "done" =>
      /\ calls[i].ret = Alone(calls[i])
      /\ calls[i].code.form = "read_counter" => ~calls[i].ret.ok

C11_Witness ==
  \E i \in Callers : \E j \in Callers \ {i} :
    /\ calls[i].pc = "done" /\ calls[i].code.form = "read_counter"
    /\ "counter" \in left
    /\ calls[j].pc = "await" /\ calls[j].code.form = "let_counter" /\ calls[j].worker = "done"

\* the evaluation of the script of c returns an error, or unwinds
ScriptFails(c) == eval_with_scope({}, c.code).outcome = "err"
ScriptPanics(c) == eval_with_scope({}, c.code).outcome = "panic"

\* C13: an isolated execution yields exactly one outcome of the right kind:
\* the isolation failure when the worker ended without delivering on the
\* channel, the script failure without coercion when evaluation failed, and
\* coercion only after a successful evaluation; the worker sends at most one
\* message.
C13_OneOutcomeOfRightKind ==
  \A i \in Callers :
    calls[i].entry = "execute_rhai_code_async" =>
      /\ calls[i].sends <= 1
      /\ calls[i].pc = "done" =>
           /\ calls[i].ret # NoRet
           /\ calls[i].worker # "running"
           /\ calls[i].worker = "panicked"
                => calls[i].sends = 0 /\ calls[i].ret = Err(IsolationBroken, << >>, "")
           /\ ScriptFails(calls[i])
                => calls[i].ret.err.msg = ScriptError /\ ~calls[i].ret.ok /\ ~calls[i].coerced
           /\ calls[i].coerced => ~ScriptFails(calls[i]) /\ ~ScriptPanics(calls[i])

C13_Witness ==
  \E i \in Callers :
    /\ calls[i].entry = "execute_rhai_code_async" /\ calls[i].pc = "done"
    /\ calls[i].worker = "panicked" /\ calls[i].chan.st = "closed"

\* what a sandboxed script must not reach
Forbidden == {"filesystem", "process", "environment", "load_code"}

\* C15: in every engine built for an invocation, no callable function or
\* language feature gives the script filesystem access, process spawning,
\* environment access or the ability to load additional code or modules.
C15_CapabilitySurface ==
  \A i \in Callers : \A cap \in calls[i].engine : cap.grants \notin Forbidden

\* C16: there is no cancellation.  A caller that abandons the await leaves
\* its worker as it is; the worker of an abandoned call runs its script to
\* the end, its send on the closed channel is ignored (the worker panics
\* only if the script does), and the step changes no other invocation.
C16_Step ==
  \A i \in Callers :
    /\ (calls[i].pc = "await" /\ calls'[i].pc = "abandoned") => calls'[i].worker = calls[i].worker
    /\ (calls[i].pc = "abandoned" /\ calls[i].worker = "running" /\ calls'[i] # calls[i]) =>
         /\ calls'[i].pc = "abandoned"
         /\ calls'[i].worker = IF ScriptPanics(calls[i]) THEN "panicked" ELSE "done"
         /\ calls'[i].chan = calls[i].chan
         /\ \A j \in Callers \ {i} : calls'[j] = calls[j]

C16_NoCancellation == [][C16_Step]_vars

C16_Witness ==
  \E i \in Callers :
    calls[i].pc = "abandoned" /\ calls[i].worker = "done" /\ calls[i].send_result = "Err"

\* C17: an isolated execution responds exactly when its script stops.  While
\* the caller awaits a script that ends (with a value, an error or the death
\* of the thread), it eventually has its outcome, whatever the other
\* invocations do; and no caller has an outcome for a script that never
\* ends.
C17_RespondsWhenScriptStops ==
  /\ \A i \in Callers :
       (calls[i].pc = "await" /\ Terminates(calls[i].code))
         ~> (calls[i].pc \in {"done", "abandoned"})
  /\ [](\A i \in Callers : calls[i].pc = "done" => Terminates(calls[i].code))

C17_Witness ==
  \E i \in Callers : \E j \in Callers \ {i} :
    /\ calls[i].pc = "await" /\ calls[i].worker = "running" /\ ~Terminates(calls[i].code)
    /\ calls[j].pc = "done" /\ calls[j].entry = "execute_rhai_code_async"

\* ------------------------------------------------- the isolation boundary
\* the result crossed the boundary: the worker evaluated the script to a
\* value and sent it, and the caller has returned
Crossed == pc = "done" /\ entry \in {"execute_code", "process_data"} /\ chan.st = "sent" /\ chan.ok

\* the kinds of value a script results in
ResultKinds == {"()", "bool", "i64", "f64", "string", "array", "map"}

\* C21: the value handed across the isolation boundary round-trips: the
\* value reconstructed on the consuming side is the script's result, of the
\* same kind and content, and its coercion gives what coercing the original
\* gives (the result of execute_rhai_code), for each declared type.
C21_RoundTrip ==
  (Crossed /\ Eval(code).d.k \in ResultKinds) =>
    /\ dynamic.called
    /\ dynamic.d = Eval(code).d
    /\ ret = execute_rhai_code(code, expected_type)

\* ------------------------------------------------------ the signed envelope
\* process_data has returned
Processed == entry = "process_data" /\ pc = "done"

\* the script of the request was executed and its result coerced
ExecutedAndCoerced ==
  /\ FirstFailure(feed.fails) = 0
  /\ worker = "done" /\ chan.st = "sent" /\ chan.ok
  /\ dynamic.called
  /\ ret = convert_rhai_result(dynamic.d, expected_type)
  /\ ret.ok

\* C22: process_data hands a value to the signer only after the script was
\* executed and its result coerced under the feed's return type: a signed
\* envelope exists only if both succeeded, it carries exactly the coerced
\* value, and there is none after a feed that does not deserialize (an
\* unsupported extension), a script failure or a coercion failure.
C22_SignedOnlyAfterCoercion ==
  /\ envelope.signed =>
       /\ Processed
       /\ ExecutedAndCoerced
       /\ envelope.result = ret.val
       /\ envelope.intent_scope = "ProcessData"
       /\ response.transport = "Ok" /\ response.result = ret.val
  /\ (Processed /\ ~ExecutedAndCoerced) => (~envelope.signed /\ response.transport = "Err")
  /\ (entry = "process_data" /\ pc # "done") => ~envelope.signed

C22_Witness ==
  /\ envelope.signed /\ envelope.result.t = "NUMBER"
  /\ Processed /\ ExecutedAndCoerced

\* ------------------------------------------------ failures and the helpers
\* the script was http_get(url), the request succeeded, and the call is over
GotBody == pc = "done" /\ code.form = "http_get" /\ code.net.st = "ok" /\ dynamic.called

\* C23: a value is classified as a failure only if a host operation failed:
\* for a successful response with body b, http_get returns b, is_ok of it
\* is true and is_err of it is false, and b as the script result is not
\* rejected by NUMBER coercion as a script-reported error.
C23_FailureOnlyIfHostFailed ==
  GotBody =>
    /\ dynamic.d = DStr(code.net.body)
    /\ is_ok(dynamic.d) /\ ~is_err(dynamic.d)
    /\ (expected_type = "NUMBER" /\ ~ret.ok) => ret.err.msg # ScriptReportedError

\* C23, amended: for a successful response with body b, http_get returns b;
\* is_ok of it is true and is_err of it is false exactly when b does not
\* begin with "Err(" or "Error:", and NUMBER coercion rejects b as a
\* script-reported error exactly when b without its surrounding whitespace
\* begins with "Error:".
C23_FailureOnlyIfMarked ==
  GotBody =>
    /\ dynamic.d = DStr(code.net.body)
    /\ is_err(dynamic.d) <=> Marked(code.net.body)
    /\ is_ok(dynamic.d) <=> ~Marked(code.net.body)
    /\ expected_type = "NUMBER" =>
         ((~ret.ok /\ ret.err.msg = ScriptReportedError)
            <=> starts_with(trim(code.net.body), ErrorMarker))

C23_Witness ==
  /\ GotBody /\ expected_type = "NUMBER"
  /\ starts_with(code.net.body, ErrorMarker)
  /\ is_err(dynamic.d)
  /\ ~ret.ok /\ ret.err.msg = ScriptReportedError

\* the script was err(v) and the call is over
ErrCalled == pc = "done" /\ code.form = "err" /\ dynamic.called

\* C24: is_err and err agree on every value: whenever is_err(v) is true,
\* err(v) is the error message, not unit, and err(v) is unit only when
\* is_ok(v) is true.
C24_ErrAgreesWithIsErr ==
  ErrCalled =>
    /\ is_err(code.d) => dynamic.d # UNIT
    /\ dynamic.d = UNIT => is_ok(code.d)

\* ------------------------------------------------- the value of a success
\* C25: whenever convert_rhai_result succeeds it returns a present value
\* whose variant is the declared return type; it never returns success with
\* no value, so no response reports "Rhai code execution returned no result".
C25_SuccessHasDeclaredVariant ==
  /\ ret.ok => (ret.val.t # "None" /\ ret.val.t = expected_type)
  /\ (dynamic.called /\ convert_rhai_result(dynamic.d, expected_type).ok)
       => convert_rhai_result(dynamic.d, expected_type).val.t = expected_type
  /\ ~(response.error.some /\ response.error.e.msg = NoResult)

C25_Witness ==
  /\ pc = "done" /\ entry = "execute_code" /\ dynamic.called /\ dynamic.d = UNIT
  /\ expected_type = "VECTOR"
  /\ ret.ok /\ ret.val.t = "VECTOR"
  /\ response.success /\ ~response.error.some

====
